---- MODULE Spec2Model ----
(***************************************************************************)
(* Model of the Mihomo config-file persistence module of metacubexd:       *)
(* server/utils/mihomoConfig (readMihomoConfigFile, writeMihomoConfigFile, *)
(* mapNodeError) and the PUT /api/mihomo-config handler, running on a      *)
(* POSIX file system (directory entries naming inodes).                    *)
(*                                                                         *)
(* Strings are sequences of runs <<code unit, count>> of UTF-16 code       *)
(* units; file data are sequences of runs <<byte, count>>.  A run stands   *)
(* for `count` copies of its value, so a string of 2 MiB + 1 letters is    *)
(* one run.  Both are kept normalised: no empty run, no two adjacent runs  *)
(* of the same value.                                                      *)
(***************************************************************************)
EXTENDS Integers, Sequences, FiniteSets, TLC

\* ------------------------------------------------------------------ bounds
\* Largest value of the millisecond clock.
MaxClock == 1
\* A write(2) may stop short only while the file offset is below this.
MaxShortWrite == 2
\* A caller calls again only while fewer files than this have been created.
MaxFiles == 3

\* --------------------------------------------------------- program constants
MIHOMO_CONFIG_FILE_PATH == "/opt/mihomo/config.yaml"
MAX_MIHOMO_CONFIG_SIZE_BYTES == 2 * 1024 * 1024

\* ------------------------------------------------------------ run sequences
RLen(d) ==
  LET f[i \in 0..Len(d)] == IF i = 0 THEN 0 ELSE f[i - 1] + d[i][2]
  IN  f[Len(d)]

\* n copies of value v appended to d.
RAppend(d, v, n) ==
  IF n = 0 THEN d
  ELSE IF Len(d) > 0 /\ d[Len(d)][1] = v
       THEN [d EXCEPT ![Len(d)] = <<v, d[Len(d)][2] + n>>]
       ELSE Append(d, <<v, n>>)

RCat(a, b) ==
  LET f[i \in 0..Len(b)] ==
        IF i = 0 THEN a ELSE RAppend(f[i - 1], b[i][1], b[i][2])
  IN  f[Len(b)]

\* The first n elements of d (all of d when it is shorter).
RTake(d, n) ==
  LET f[i \in 0..Len(d)] ==
        IF i = 0 THEN <<>>
        ELSE LET have == RLen(f[i - 1])
             IN  IF have >= n THEN f[i - 1]
                 ELSE IF d[i][2] <= n - have
                      THEN Append(f[i - 1], d[i])
                      ELSE Append(f[i - 1], <<d[i][1], n - have>>)
  IN  f[Len(d)]

\* d without its first n elements (empty when it is shorter).
RDrop(d, n) ==
  LET g[i \in 0..Len(d)] ==
        \* g[i]: what remains of runs Len(d)-i+1 .. Len(d)
        IF i = 0 THEN <<>>
        ELSE LET k     == Len(d) - i + 1
                 before == RLen(SubSeq(d, 1, k - 1))
             IN  IF before >= n THEN <<d[k]>> \o g[i - 1]
                 ELSE IF before + d[k][2] <= n THEN g[i - 1]
                      ELSE <<<<d[k][1], before + d[k][2] - n>>>> \o g[i - 1]
  IN  g[Len(d)]

RHead(d) == d[1][1]
RTail(d) == IF d[1][2] > 1 THEN <<<<d[1][1], d[1][2] - 1>>>> \o Tail(d) ELSE Tail(d)

\* A plain sequence of values as a run sequence.
Runs(s) ==
  LET f[i \in 0..Len(s)] == IF i = 0 THEN <<>> ELSE RAppend(f[i - 1], s[i], 1)
  IN  f[Len(s)]

\* -------------------------------------------------------------- UTF-8 codec
IsHighSurrogate(u) == u >= 55296 /\ u <= 56319   \* D800..DBFF
IsLowSurrogate(u)  == u >= 56320 /\ u <= 57343   \* DC00..DFFF

\* The UTF-8 bytes of code point cp.
Utf8Bytes(cp) ==
  IF cp < 128 THEN <<cp>>
  ELSE IF cp < 2048 THEN <<192 + (cp \div 64), 128 + (cp % 64)>>
  ELSE IF cp < 65536
       THEN <<224 + (cp \div 4096), 128 + ((cp \div 64) % 64), 128 + (cp % 64)>>
       ELSE <<240 + (cp \div 262144), 128 + ((cp \div 4096) % 64),
              128 + ((cp \div 64) % 64), 128 + (cp % 64)>>

\* Buffer.from(s, 'utf8'): a surrogate pair is one 4-byte code point, an
\* unpaired surrogate is written as U+FFFD (EF BF BD).
RECURSIVE Utf8EncodeFrom(_, _)
Utf8EncodeFrom(s, acc) ==
  IF Len(s) = 0 THEN acc
  ELSE LET u == RHead(s)
       IN  IF u < 128
           THEN Utf8EncodeFrom(Tail(s), RAppend(acc, u, s[1][2]))
           ELSE LET rest == RTail(s)
                IN  IF IsHighSurrogate(u) /\ Len(rest) > 0 /\ IsLowSurrogate(RHead(rest))
                    THEN Utf8EncodeFrom(RTail(rest),
                           RCat(acc, Runs(Utf8Bytes(
                             65536 + (u - 55296) * 1024 + (RHead(rest) - 56320)))))
                    ELSE IF IsHighSurrogate(u) \/ IsLowSurrogate(u)
                         THEN Utf8EncodeFrom(rest, RCat(acc, Runs(Utf8Bytes(65533))))
                         ELSE Utf8EncodeFrom(rest, RCat(acc, Runs(Utf8Bytes(u))))

Utf8Encode(s) == Utf8EncodeFrom(s, <<>>)

\* Buffer.byteLength(s, 'utf8')
ByteLength(s) == RLen(Utf8Encode(s))

\* The UTF-16 code units of code point cp.
Utf16Units(cp) ==
  IF cp < 65536 THEN <<cp>>
  ELSE <<55296 + ((cp - 65536) \div 1024), 56320 + ((cp - 65536) % 1024)>>

\* buffer.toString('utf8'): the decoder of the Encoding Standard.  st is the
\* decoder state [cp, seen, needed, lower, upper]; an ill-formed or truncated
\* sequence becomes one U+FFFD and the offending byte is decoded again.
DecoderReset == [cp |-> 0, seen |-> 0, needed |-> 0, lower |-> 128, upper |-> 191]

RECURSIVE Utf8DecodeFrom(_, _, _)
Utf8DecodeFrom(d, st, acc) ==
  IF Len(d) = 0
  THEN IF st.needed # 0 THEN RAppend(acc, 65533, 1) ELSE acc
  ELSE LET b == RHead(d)
       IN  IF st.needed = 0
           THEN IF b < 128
                THEN Utf8DecodeFrom(Tail(d), st, RAppend(acc, b, d[1][2]))
                ELSE IF b >= 194 /\ b <= 223
                THEN Utf8DecodeFrom(RTail(d),
                       [st EXCEPT !.needed = 1, !.cp = b % 32], acc)
                ELSE IF b >= 224 /\ b <= 239
                THEN Utf8DecodeFrom(RTail(d),
                       [st EXCEPT !.needed = 2, !.cp = b % 16,
                                  !.lower = IF b = 224 THEN 160 ELSE 128,
                                  !.upper = IF b = 237 THEN 159 ELSE 191], acc)
                ELSE IF b >= 240 /\ b <= 244
                THEN Utf8DecodeFrom(RTail(d),
                       [st EXCEPT !.needed = 3, !.cp = b % 8,
                                  !.lower = IF b = 240 THEN 144 ELSE 128,
                                  !.upper = IF b = 244 THEN 143 ELSE 191], acc)
                ELSE Utf8DecodeFrom(RTail(d), st, RAppend(acc, 65533, 1))
           ELSE IF b < st.lower \/ b > st.upper
                THEN Utf8DecodeFrom(d, DecoderReset, RAppend(acc, 65533, 1))
                ELSE LET cp == st.cp * 64 + (b % 64)
                     IN  IF st.seen + 1 = st.needed
                         THEN Utf8DecodeFrom(RTail(d), DecoderReset,
                                RCat(acc, Runs(Utf16Units(cp))))
                         ELSE Utf8DecodeFrom(RTail(d),
                                [st EXCEPT !.cp = cp, !.seen = st.seen + 1,
                                           !.lower = 128, !.upper = 191], acc)

\* Mutant: a leading U+FEFF is dropped, as TextDecoder does.
Utf8DecodeStripBom(d) ==
  LET s == Utf8DecodeFrom(d, DecoderReset, <<>>)
  IN  IF Len(s) > 0 /\ RHead(s) = 65279 THEN RTail(s) ELSE s

Utf8Decode(d) == Utf8DecodeFrom(d, DecoderReset, <<>>)

\* ------------------------------------------------------------ JS values
\* A JavaScript value: its typeof and, for a string, its code units.
Str(s)      == [type |-> "string", str |-> s]
NotAString  == {[type |-> t, str |-> <<>>] : t \in {"number", "undefined", "object"}}

\* ----------------------------------------------------------- error taxonomy
\* An error object: its class name, the fields of MihomoConfigError, and the
\* message as the pieces of its template.
MihomoConfigError(code, statusCode, message) ==
  [name |-> "MihomoConfigError", code |-> code, statusCode |-> statusCode,
   message |-> message]
NoError == [name |-> "", code |-> "none", statusCode |-> 0, message |-> <<>>]

\* The `code` of a storage failure; NoCode is a failure that has none.
NoCode == ""
Errnos == {"ENOENT", "EACCES", "EPERM", "EIO", "ENOSPC"}

\* Mutant: EPERM is not recognised.
mapNodeErrorWithoutEperm(error, action) ==
  IF error = "ENOENT"
  THEN MihomoConfigError("NOT_FOUND", 404, <<"Mihomo config file not found">>)
  ELSE IF error = "EACCES"
       THEN MihomoConfigError("PERMISSION_DENIED", 403,
              <<"Permission denied while trying to ", action, " Mihomo config file">>)
       ELSE MihomoConfigError("IO_ERROR", 500,
              <<"Failed to ", action, " Mihomo config file">>)

\* Mutant: a missing file is reported like any other failure.
mapNodeErrorWithoutEnoent(error, action) ==
  IF error = "EACCES" \/ error = "EPERM"
  THEN MihomoConfigError("PERMISSION_DENIED", 403,
         <<"Permission denied while trying to ", action, " Mihomo config file">>)
  ELSE MihomoConfigError("IO_ERROR", 500,
         <<"Failed to ", action, " Mihomo config file">>)

\* error is the failure's code, action is 'read' or 'write'.
mapNodeError(error, action) ==
  IF error = "ENOENT"
  THEN MihomoConfigError("NOT_FOUND", 404, <<"Mihomo config file not found">>)
  ELSE IF error = "EACCES" \/ error = "EPERM"
       THEN MihomoConfigError("PERMISSION_DENIED", 403,
              <<"Permission denied while trying to ", action, " Mihomo config file">>)
       ELSE MihomoConfigError("IO_ERROR", 500,
              <<"Failed to ", action, " Mihomo config file">>)

\* --------------------------------------------------------------- the process
\* All calls run in the one server process.
ProcessPid  == "pid"
ProcessUid  == "server"
AllRW       == {"ur", "uw", "gr", "gw", "or", "ow"}   \* 0666
ProcessUmask == {"gw", "ow"}                          \* 022

Writers == {1, 2}

\* ----------------------------------------------------------------- paths
PathOf(filePath) == [base |-> filePath, pid |-> "", ms |-> 0, tmp |-> FALSE]

\* Mutant: the content is written to the target path itself.
TempPathInPlace(filePath, pid, ms) == PathOf(filePath)

\* `${filePath}.${process.pid}.${Date.now()}.tmp`
TempPath(filePath, pid, ms) == [base |-> filePath, pid |-> pid, ms |-> ms, tmp |-> TRUE]

VARIABLES
  dir,        \* directory: path -> inode number, for the paths that exist
  inodes,     \* inode number -> [data, mode, uid, mtime]
  now,        \* the clock, in ms
  wr,         \* writer -> state of its writeMihomoConfigFile / PUT call
  rd,         \* state of the readMihomoConfigFile call
  crashed,    \* the server process was killed
  lastRename, \* the writer whose rename(2) last succeeded, 0 if none
  fetch,      \* state of the remote fetch handler's request
  editor      \* the editor page: its refs and the calls of its two functions

vars == <<dir, inodes, now, wr, rd, crashed, lastRename, fetch, editor>>
\* What is on the server side.
server == <<dir, inodes, now, wr, rd, crashed, lastRename, fetch>>

\* ------------------------------------------------------------- file system
Exists(p)      == p \in DOMAIN dir
\* Mutant: a name that exists is not given to another file.
LinkIfAbsent(d, p, i) ==
  [q \in (DOMAIN d) \cup {p} |-> IF q = p /\ p \notin DOMAIN d THEN i ELSE d[q]]
Link(d, p, i)  == [q \in (DOMAIN d) \cup {p} |-> IF q = p THEN i ELSE d[q]]
Unlinked(d, p) == [q \in (DOMAIN d) \ {p} |-> d[q]]

\* What is at path p: the file's bytes and metadata, or absent.
Absent == [exists |-> FALSE, data |-> <<>>, mode |-> {}, uid |-> "", mtime |-> 0]
FileAt(p) ==
  IF Exists(p)
  THEN [exists |-> TRUE, data |-> inodes[dir[p]].data, mode |-> inodes[dir[p]].mode,
        uid |-> inodes[dir[p]].uid, mtime |-> inodes[dir[p]].mtime]
  ELSE Absent

\* pwrite: chunk written at offset off; a gap past the end reads as zeros.
WriteAt(data, off, chunk) ==
  LET head == IF RLen(data) >= off THEN RTake(data, off)
              ELSE RAppend(data, 0, off - RLen(data))
  IN  RCat(RCat(head, chunk), RDrop(data, off + RLen(chunk)))

\* ------------------------------------------------------------- writer state
IdleWriter ==
  [pc |-> "idle", via |-> "none", arg |-> Str(<<>>), filePath |-> "",
   tempPath |-> PathOf(""), fd |-> 0, off |-> 0, created |-> 0, storage |-> FALSE,
   called |-> FALSE, error |-> NoError, mtimeMs |-> 0, renamed |-> FALSE,
   cleanup |-> "none", status |-> 0, pre |-> Absent, overlapped |-> FALSE,
   installed |-> <<>>, errno |-> "none",
   payload |-> [ok |-> FALSE, mtimeMs |-> 0, code |-> ""]]

IdleReader ==
  [pc |-> "idle", filePath |-> "", haveContent |-> FALSE, haveStat |-> FALSE,
   content |-> <<>>, mtimeMs |-> 0, error |-> NoError, errno |-> "none",
   via |-> "none", status |-> 0,
   payload |-> [content |-> <<>>, mtimeMs |-> 0, code |-> ""]]

\* ------------------------------------------------- writeMihomoConfigFile
\* Mutant: the limit is applied to the number of characters.
TooLargeByChars(content) == RLen(content) > MAX_MIHOMO_CONFIG_SIZE_BYTES

\* Mutant: content of exactly the limit is refused too.
TooLargeAtLimit(content) == ByteLength(content) >= MAX_MIHOMO_CONFIG_SIZE_BYTES

TooLarge(content) == ByteLength(content) > MAX_MIHOMO_CONFIG_SIZE_BYTES

\* typeof content === 'string'
ValidContent(v) == v.type = "string"

\* The call up to its first await: the two checks, then tempPath.  A call
\* that throws here ends at once.
EnterWrite(v, filePath, via) ==
  LET base == [IdleWriter EXCEPT !.via = via, !.arg = v, !.filePath = filePath,
                                 !.called = TRUE, !.pre = FileAt(PathOf(filePath))]
  IN  IF ~ValidContent(v)
      THEN [base EXCEPT !.pc = "returned",
                        !.error = MihomoConfigError("INVALID_CONTENT", 400,
                                                    <<"content", " must be a string">>)]
      ELSE IF TooLarge(v.str)
      THEN [base EXCEPT !.pc = "returned",
                        !.error = MihomoConfigError("CONTENT_TOO_LARGE", 413,
                                    <<"Config content exceeds ",
                                      ToString(MAX_MIHOMO_CONFIG_SIZE_BYTES), " bytes">>)]
      ELSE [base EXCEPT !.pc = "open",
                        !.tempPath = TempPath(filePath, ProcessPid, now)]

\* An error that is not a MihomoConfigError, as readBody may throw.
OtherError == [name |-> "Error", code |-> "none", statusCode |-> 0,
               message |-> <<"request body could not be read">>]

\* Mutant: the class of the error is not looked at.
HandlerStatusUnchecked(error) == IF error = NoError THEN 200 ELSE error.statusCode

\* A handler's answer to an error: a MihomoConfigError gives its statusCode
\* and data.code, any other error 500 and no data; 200 without an error.
HandlerStatus(error) ==
  IF error = NoError THEN 200
  ELSE IF error.name = "MihomoConfigError" THEN error.statusCode ELSE 500
HandlerCode(error) ==
  IF error # NoError /\ error.name = "MihomoConfigError" THEN error.code ELSE ""

\* The PUT handler's answer once the call has returned: { ok: true, ...result }
\* or the error.
Finished(r) ==
  IF r.via = "put" /\ r.pc = "returned"
  THEN [r EXCEPT !.status = HandlerStatus(r.error),
                 !.payload = [ok |-> r.error = NoError,
                              mtimeMs |-> IF r.error = NoError THEN r.mtimeMs ELSE 0,
                              code |-> HandlerCode(r.error)]]
  ELSE r

InProgress(r) == r.pc \notin {"idle", "returned"}

\* wr with writer w's call begun as record r; calls in progress at the same
\* time are marked as overlapping.
Begun(w, r) ==
  [v \in Writers |->
     IF v = w
     THEN [r EXCEPT !.overlapped = InProgress(r) /\ \E u \in Writers \ {w} : InProgress(wr[u])]
     ELSE IF InProgress(r) /\ InProgress(wr[v])
          THEN [wr[v] EXCEPT !.overlapped = TRUE] ELSE wr[v]]

Call(w, v, filePath) ==
  /\ ~crashed
  /\ wr[w].pc = "idle"
  /\ wr' = Begun(w, EnterWrite(v, filePath, "direct"))
  /\ UNCHANGED <<dir, inodes, now, rd, crashed, lastRename, fetch, editor>>

\* Mutant: only the presence of a body is checked.
ValidBodyPresentOnly(body) == body.present

\* !body || typeof body.content !== 'string', negated
ValidBody(body) == body.present /\ body.content.type = "string"

\* PUT /api/mihomo-config with request body `body`.
PutRequest(w, body) ==
  /\ ~crashed
  /\ wr[w].pc = "idle"
  /\ wr' = Begun(w,
       IF ~ValidBody(body)
       THEN Finished([IdleWriter EXCEPT !.pc = "returned", !.via = "put",
                        !.arg = body.content,
                        !.error = MihomoConfigError("INVALID_CONTENT", 400,
                                                    <<"content", " must be a string">>)])
       ELSE Finished(EnterWrite(body.content, MIHOMO_CONFIG_FILE_PATH, "put")))
  /\ UNCHANGED <<dir, inodes, now, rd, crashed, lastRename, fetch, editor>>

\* PUT /api/mihomo-config whose body cannot be read: readBody throws.
PutBodyUnreadable(w) ==
  /\ ~crashed
  /\ wr[w].pc = "idle"
  /\ wr' = Begun(w, Finished([IdleWriter EXCEPT !.pc = "returned", !.via = "put",
                                               !.error = OtherError]))
  /\ UNCHANGED <<dir, inodes, now, rd, crashed, lastRename, fetch, editor>>

\* Mutant: the temporary file is removed on the success path only.
CaughtWithoutCleanup(r, errno) ==
  [r EXCEPT !.pc = "return", !.error = mapNodeError(errno, "write"),
            !.errno = errno, !.storage = TRUE]

\* catch (error) { throw mapNodeError(error, 'write') } finally { unlink }
Caught(r, errno) == [r EXCEPT !.pc = "unlink", !.error = mapNodeError(errno, "write"),
                              !.errno = errno, !.storage = TRUE]

\* writeFile(tempPath, content, 'utf8'), its open(O_WRONLY|O_CREAT|O_TRUNC).
WriteFileOpen(w, faults) ==
  LET r == wr[w]
      n == Len(inodes) + 1
      next == IF Len(r.arg.str) = 0 THEN "rename" ELSE "write"
  IN
  /\ ~crashed
  /\ r.pc = "open"
  /\ \/ /\ Exists(r.tempPath)
        /\ inodes' = [inodes EXCEPT ![dir[r.tempPath]].data = <<>>,
                                    ![dir[r.tempPath]].mtime = now]
        /\ wr' = [wr EXCEPT ![w] = [r EXCEPT !.pc = next, !.fd = dir[r.tempPath],
                                             !.storage = TRUE]]
        /\ UNCHANGED dir
     \/ /\ ~Exists(r.tempPath)
        /\ inodes' = Append(inodes, [data |-> <<>>, mode |-> AllRW \ ProcessUmask,
                                     uid |-> ProcessUid, mtime |-> now])
        /\ dir' = Link(dir, r.tempPath, n)
        /\ wr' = [wr EXCEPT ![w] = [r EXCEPT !.pc = next, !.fd = n, !.created = n,
                                             !.storage = TRUE]]
     \/ /\ \E e \in faults : wr' = [wr EXCEPT ![w] = Caught(r, e)]
        /\ UNCHANGED <<dir, inodes>>
  /\ UNCHANGED <<now, rd, crashed, lastRename, fetch, editor>>

\* The byte counts one write(2) may return with `remaining` bytes asked for
\* at offset off: all of them, or fewer near the start of the file.
WriteCounts(off, remaining) ==
  {remaining} \cup {k \in 1..MaxShortWrite : k < remaining /\ off + k <= MaxShortWrite}

\* writeFile(tempPath, content, 'utf8'), one write(2) on the open file.
WriteFileChunk(w, faults) ==
  LET r   == wr[w]
      buf == Utf8Encode(r.arg.str)
  IN
  /\ ~crashed
  /\ r.pc = "write"
  /\ \/ \E k \in WriteCounts(r.off, RLen(buf) - r.off) :
          /\ inodes' = [inodes EXCEPT
                          ![r.fd].data = WriteAt(@, r.off, RTake(RDrop(buf, r.off), k)),
                          ![r.fd].mtime = now]
          /\ wr' = [wr EXCEPT ![w] =
                      [r EXCEPT !.off = r.off + k,
                                !.pc = IF r.off + k = RLen(buf) THEN "rename" ELSE "write"]]
     \/ /\ \E e \in faults : wr' = [wr EXCEPT ![w] = Caught(r, e)]
        /\ UNCHANGED inodes
  /\ UNCHANGED <<dir, now, rd, crashed, lastRename, fetch, editor>>

\* rename(tempPath, filePath)
Rename(w, faults) ==
  LET r == wr[w] IN
  /\ ~crashed
  /\ r.pc = "rename"
  /\ \/ /\ Exists(r.tempPath)
        /\ dir' = Link(Unlinked(dir, r.tempPath), PathOf(r.filePath), dir[r.tempPath])
        /\ wr' = [wr EXCEPT ![w] = [r EXCEPT !.pc = "stat", !.renamed = TRUE,
                                      !.installed = FileAt(r.tempPath).data]]
        /\ lastRename' = w
     \/ /\ ~Exists(r.tempPath)
        /\ wr' = [wr EXCEPT ![w] = Caught(r, "ENOENT")]
        /\ UNCHANGED <<dir, lastRename>>
     \/ /\ \E e \in faults : wr' = [wr EXCEPT ![w] = Caught(r, e)]
        /\ UNCHANGED <<dir, lastRename>>
  /\ UNCHANGED <<inodes, now, rd, crashed, fetch, editor>>

\* Mutant: the modification time in whole seconds.
MtimeSeconds(f) == f.mtime \div 1000
\* fileStat.mtimeMs
MtimeMs(f) == f.mtime

\* stat(filePath), then return { mtimeMs: fileStat.mtimeMs }
Stat(w, faults) ==
  LET r == wr[w] IN
  /\ ~crashed
  /\ r.pc = "stat"
  /\ \/ /\ Exists(PathOf(r.filePath))
        /\ wr' = [wr EXCEPT ![w] = [r EXCEPT !.pc = "unlink",
                                      !.mtimeMs = MtimeMs(FileAt(PathOf(r.filePath)))]]
     \/ /\ ~Exists(PathOf(r.filePath))
        /\ wr' = [wr EXCEPT ![w] = Caught(r, "ENOENT")]
     \/ \E e \in faults : wr' = [wr EXCEPT ![w] = Caught(r, e)]
  /\ UNCHANGED <<dir, inodes, now, rd, crashed, lastRename, fetch, editor>>

\* Mutant: a failed unlink is thrown like any storage failure.
CleanedOrThrown(r, result) ==
  IF result = "failed"
  THEN [r EXCEPT !.pc = "return", !.cleanup = result,
                 !.error = mapNodeError("EACCES", "write"), !.errno = "EACCES"]
  ELSE [r EXCEPT !.pc = "return", !.cleanup = result]
\* Mutant: a failed unlink is tried again.
CleanedOrRetried(r, result) ==
  [r EXCEPT !.pc = IF result = "failed" THEN "unlink" ELSE "return", !.cleanup = result]
\* The finally block is over, whatever unlink did: .catch(() => {})
Cleaned(r, result) == [r EXCEPT !.pc = "return", !.cleanup = result]

\* finally { await unlink(tempPath).catch(() => {}) }
Unlink(w, faults) ==
  LET r == wr[w] IN
  /\ ~crashed
  /\ r.pc = "unlink"
  /\ \/ /\ Exists(r.tempPath)
        /\ dir' = Unlinked(dir, r.tempPath)
        /\ wr' = [wr EXCEPT ![w] = Cleaned(r, "removed")]
     \/ /\ ~Exists(r.tempPath)
        /\ wr' = [wr EXCEPT ![w] = Cleaned(r, "ENOENT")]
        /\ UNCHANGED dir
     \/ /\ Exists(r.tempPath)
        /\ faults # {}
        /\ wr' = [wr EXCEPT ![w] = Cleaned(r, "failed")]
        /\ UNCHANGED dir
  /\ UNCHANGED <<inodes, now, rd, crashed, lastRename, fetch, editor>>

\* The call's promise settles: the value of the try block, or the error.
Return(w) ==
  /\ ~crashed
  /\ wr[w].pc = "return"
  /\ wr' = [wr EXCEPT ![w] = Finished([wr[w] EXCEPT !.pc = "returned"])]
  /\ UNCHANGED <<dir, inodes, now, rd, crashed, lastRename, fetch, editor>>

\* -------------------------------------------------- readMihomoConfigFile
ReadCall(filePath) ==
  /\ ~crashed
  /\ rd.pc = "idle"
  /\ rd' = [IdleReader EXCEPT !.pc = "reading", !.filePath = filePath,
                              !.via = "direct"]
  /\ UNCHANGED <<dir, inodes, now, wr, crashed, lastRename, fetch, editor>>

\* GET /api/mihomo-config
GetRequest ==
  /\ ~crashed
  /\ rd.pc = "idle"
  /\ rd' = [IdleReader EXCEPT !.pc = "reading", !.filePath = MIHOMO_CONFIG_FILE_PATH,
                              !.via = "get"]
  /\ UNCHANGED <<dir, inodes, now, wr, crashed, lastRename, fetch, editor>>

\* The GET handler's answer once the call has returned: what it returned, or
\* the error.
ReadFinished(r) ==
  IF r.via = "get" /\ r.pc = "returned"
  THEN [r EXCEPT !.status = HandlerStatus(r.error),
                 !.payload = IF r.error = NoError
                             THEN [content |-> r.content, mtimeMs |-> r.mtimeMs, code |-> ""]
                             ELSE [content |-> <<>>, mtimeMs |-> 0,
                                   code |-> HandlerCode(r.error)]]
  ELSE r

\* Promise.all: fulfilled when both have, rejected with the first rejection.
ReadDone(r) ==
  IF r.haveContent /\ r.haveStat THEN ReadFinished([r EXCEPT !.pc = "returned"]) ELSE r
ReadFailed(r, errno) ==
  ReadFinished([r EXCEPT !.pc = "returned", !.error = mapNodeError(errno, "read"),
                         !.errno = errno])

\* readFile(filePath, 'utf8')
ReadFile(faults) ==
  /\ ~crashed
  /\ rd.pc = "reading" /\ ~rd.haveContent
  /\ \/ /\ Exists(PathOf(rd.filePath))
        /\ rd' = ReadDone([rd EXCEPT !.haveContent = TRUE,
                             !.content = Utf8Decode(FileAt(PathOf(rd.filePath)).data)])
     \/ /\ ~Exists(PathOf(rd.filePath))
        /\ rd' = ReadFailed(rd, "ENOENT")
     \/ \E e \in faults : rd' = ReadFailed(rd, e)
  /\ UNCHANGED <<dir, inodes, now, wr, crashed, lastRename, fetch, editor>>

\* stat(filePath)
ReadStat(faults) ==
  /\ ~crashed
  /\ rd.pc = "reading" /\ ~rd.haveStat
  /\ \/ /\ Exists(PathOf(rd.filePath))
        /\ rd' = ReadDone([rd EXCEPT !.haveStat = TRUE,
                             !.mtimeMs = MtimeMs(FileAt(PathOf(rd.filePath)))])
     \/ /\ ~Exists(PathOf(rd.filePath))
        /\ rd' = ReadFailed(rd, "ENOENT")
     \/ \E e \in faults : rd' = ReadFailed(rd, e)
  /\ UNCHANGED <<dir, inodes, now, wr, crashed, lastRename, fetch, editor>>

\* ------------------------------------------------ remote fetch handler
\* Text as single characters, for the url and the content-length header.
Digits == {"0", "1", "2", "3", "4", "5", "6", "7", "8", "9"}
DigitValue == [c \in Digits |->
                 CASE c = "0" -> 0 [] c = "1" -> 1 [] c = "2" -> 2 [] c = "3" -> 3
                   [] c = "4" -> 4 [] c = "5" -> 5 [] c = "6" -> 6 [] c = "7" -> 7
                   [] c = "8" -> 8 [] c = "9" -> 9]

StartsWith(s, prefix) ==
  Len(s) >= Len(prefix) /\ SubSeq(s, 1, Len(prefix)) = prefix

\* Number(text) for text of digits, commas and inner blanks: a decimal
\* numeral gives its value, the empty text 0, anything else NaN.
NaN == [nan |-> TRUE, value |-> 0]
RECURSIVE Decimal(_, _)
Decimal(s, acc) ==
  IF s = <<>> THEN acc ELSE Decimal(Tail(s), (acc * 10) + DigitValue[Head(s)])
Number(s) ==
  IF \A i \in 1..Len(s) : s[i] \in Digits
  THEN [nan |-> FALSE, value |-> Decimal(s, 0)]
  ELSE NaN
GreaterThan(x, n) == ~x.nan /\ x.value > n

\* response.text(): the body decoded as UTF-8, a leading U+FEFF dropped.
ResponseText(body) ==
  LET s == Utf8Decode(body)
  IN  IF Len(s) > 0 /\ RHead(s) = 65279 THEN RTail(s) ELSE s

\* An error made by createError, and one that carries no status code.
createError(statusCode, statusMessage) ==
  [statusCode |-> statusCode, statusMessage |-> statusMessage]
NoFetchError == [statusCode |-> 0, statusMessage |-> <<>>]
FetchFailed == [statusCode |-> 0, statusMessage |-> <<"fetch failed">>]
RemoteTooLarge ==
  createError(413, <<"Remote file exceeds ",
                     ToString(MAX_MIHOMO_CONFIG_SIZE_BYTES), " bytes limit">>)

\* Mutant: the received text is measured in characters.
ContentTooLargeByChars(content) == RLen(content) > MAX_MIHOMO_CONFIG_SIZE_BYTES
\* new TextEncoder().encode(content).length > MAX_MIHOMO_CONFIG_SIZE_BYTES
ContentTooLarge(content) == RLen(Utf8Encode(content)) > MAX_MIHOMO_CONFIG_SIZE_BYTES

\* The catch block: an error with a status code is rethrown, any other is 502.
FetchCaught(error) ==
  IF error.statusCode # 0
  THEN error
  ELSE createError(502, <<"Failed to fetch from remote URL: ">> \o error.statusMessage)

NoResponse == [status |-> 0, contentLength |-> [present |-> FALSE, text |-> <<>>],
               body |-> <<>>]
IdleFetch ==
  [pc |-> "idle", url |-> [type |-> "undefined", str |-> <<>>],
   response |-> NoResponse, bodyRead |-> FALSE, content |-> <<>>,
   error |-> NoFetchError]

FetchDone(r, content) == [r EXCEPT !.pc = "done", !.content = content]
FetchThrown(r, error) == [r EXCEPT !.pc = "done", !.error = error]

\* The handler up to its call of fetch(url).
FetchRequest(url) ==
  /\ fetch.pc = "idle"
  /\ fetch' =
       LET r == [fetch EXCEPT !.url = url]
       IN  IF url.type # "string" \/ url.str = <<>>
           THEN FetchThrown(r, createError(400, <<"Missing required query parameter: url">>))
           ELSE IF /\ ~StartsWith(url.str, <<"h", "t", "t", "p", ":", "/", "/">>)
                   /\ ~StartsWith(url.str, <<"h", "t", "t", "p", "s", ":", "/", "/">>)
                THEN FetchThrown(r, createError(400, <<"URL must start with http:// or https://">>))
                ELSE [r EXCEPT !.pc = "fetching"]
  /\ UNCHANGED <<dir, inodes, now, wr, rd, crashed, lastRename, editor>>

\* fetch(url) is rejected.
FetchRejected ==
  /\ fetch.pc = "fetching"
  /\ fetch' = FetchThrown(fetch, FetchCaught(FetchFailed))
  /\ UNCHANGED <<dir, inodes, now, wr, rd, crashed, lastRename, editor>>

\* fetch(url) gives a response: the checks of its status and content-length.
FetchResponded(response) ==
  /\ fetch.pc = "fetching"
  /\ fetch' =
       LET r == [fetch EXCEPT !.response = response]
           ok == response.status >= 200 /\ response.status <= 299
           contentLength == response.contentLength
       IN  IF ~ok
           THEN FetchThrown(r, FetchCaught(createError(response.status,
                     <<"Remote server responded with ", ToString(response.status)>>)))
           ELSE IF /\ contentLength.present
                   /\ contentLength.text # <<>>
                   /\ GreaterThan(Number(contentLength.text), MAX_MIHOMO_CONFIG_SIZE_BYTES)
                THEN FetchThrown(r, FetchCaught(RemoteTooLarge))
                ELSE [r EXCEPT !.pc = "reading"]
  /\ UNCHANGED <<dir, inodes, now, wr, rd, crashed, lastRename, editor>>

\* response.text() gives the text, or is rejected when the transfer breaks.
FetchTextSettled(broken) ==
  /\ fetch.pc = "reading"
  /\ fetch' =
       IF broken
       THEN FetchThrown(fetch, FetchCaught(FetchFailed))
       ELSE LET r == [fetch EXCEPT !.bodyRead = TRUE]
                content == ResponseText(fetch.response.body)
            IN  IF ContentTooLarge(content)
                THEN FetchThrown(r, FetchCaught(RemoteTooLarge))
                ELSE FetchDone(r, content)
  /\ UNCHANGED <<dir, inodes, now, wr, rd, crashed, lastRename, editor>>

\* ------------------------------------------------------ editor (rules.vue)
\* The calls of each of the two functions that may be in progress at once.
SaveCalls == {1, 2}
LoadCalls == {1, 2}

\* yamlMtimeMs is null or a number; yamlStatus is null or { type, message }.
Null == [null |-> TRUE, value |-> 0]
Ms(n) == [null |-> FALSE, value |-> n]
NoStatus == [type |-> "null", message |-> ""]

IdleSave ==
  [pc |-> "idle", sent |-> "", alone |-> TRUE, putSent |-> FALSE, reloadSent |-> FALSE,
   written |-> FALSE, reload |-> "none", wasDirty |-> FALSE,
   originalBefore |-> "", mtimeBefore |-> Null]
IdleLoad == [pc |-> "idle", alone |-> TRUE]

InitEditor ==
  [yamlContent |-> "", originalYamlContent |-> "", yamlMtimeMs |-> Null,
   yamlLoading |-> FALSE, yamlSaving |-> FALSE, yamlStatus |-> NoStatus,
   save |-> [s \in SaveCalls |-> IdleSave], load |-> [l \in LoadCalls |-> IdleLoad]]

\* yamlContent.value !== originalYamlContent.value
isYamlDirty(e) == e.yamlContent # e.originalYamlContent

\* err?.data?.statusMessage || err?.statusMessage || err?.message || fallback
parseRequestErrorMessage(error, fallback) ==
  IF error.data # "" THEN error.data
  ELSE IF error.statusMessage # "" THEN error.statusMessage
  ELSE IF error.message # "" THEN error.message
  ELSE fallback

Pending(c) == c.pc \notin {"idle", "done"}
\* A call of saveMihomoConfigAndReload that has returned: what it did is kept.
Returned(c) == [IdleSave EXCEPT !.pc = "done", !.alone = c.alone, !.putSent = c.putSent,
                                !.reloadSent = c.reloadSent, !.written = c.written,
                                !.reload = c.reload, !.wasDirty = c.wasDirty]
AnyPending(e) ==
  (\E s \in SaveCalls : Pending(e.save[s])) \/ (\E l \in LoadCalls : Pending(e.load[l]))

\* A call begins: the calls in progress are no longer alone, nor is it if
\* there are any.
NotAlone(e) ==
  [e EXCEPT !.save = [s \in SaveCalls |->
                        IF Pending(e.save[s]) THEN [e.save[s] EXCEPT !.alone = FALSE]
                        ELSE e.save[s]],
            !.load = [l \in LoadCalls |->
                        IF Pending(e.load[l]) THEN [e.load[l] EXCEPT !.alone = FALSE]
                        ELSE e.load[l]]]

\* The textarea, disabled while yamlLoading or yamlSaving.
Edit(text) ==
  /\ ~editor.yamlLoading /\ ~editor.yamlSaving
  /\ text # editor.yamlContent
  /\ editor' = [editor EXCEPT !.yamlContent = text]
  /\ UNCHANGED server

\* loadMihomoConfigFile() up to its $fetch.  The template calls it from a
\* button and onMounted does; here it may be called at any time.
loadMihomoConfigFile(l) ==
  /\ ~Pending(editor.load[l])
  /\ editor' = [NotAlone(editor) EXCEPT
                  !.yamlLoading = TRUE, !.yamlStatus = NoStatus,
                  !.load[l] = [pc |-> "get", alone |-> ~AnyPending(editor)]]
  /\ UNCHANGED server

\* The GET is answered: the try block, then finally.
LoadFulfilled(l, result) ==
  /\ editor.load[l].pc = "get"
  /\ editor' = [editor EXCEPT
                  !.yamlContent = result.content,
                  !.originalYamlContent = result.content,
                  !.yamlMtimeMs = Ms(result.mtimeMs),
                  !.yamlLoading = FALSE,
                  !.load[l].pc = "done"]
  /\ UNCHANGED server

\* The GET fails: the catch block, then finally.
LoadRejected(l, error) ==
  /\ editor.load[l].pc = "get"
  /\ editor' = [editor EXCEPT
                  !.yamlStatus = [type |-> "error",
                                  message |-> parseRequestErrorMessage(error, "yamlEditorLoadFailed")],
                  !.yamlLoading = FALSE,
                  !.load[l].pc = "done"]
  /\ UNCHANGED server

\* Mutant: the catch of the file write leaves yamlSaving set.
WriteFailedStillSaving(e, s, error) ==
  [e EXCEPT !.yamlStatus = [type |-> "error",
                            message |-> parseRequestErrorMessage(error, "yamlEditorSaveFailed")],
            !.save[s] = Returned(e.save[s])]
\* Mutant: the reload is asked for whether or not the file was written.
WriteFailedThenReload(e, s, error) ==
  [e EXCEPT !.yamlStatus = [type |-> "error",
                            message |-> parseRequestErrorMessage(error, "yamlEditorSaveFailed")],
            !.save[s].pc = "reload", !.save[s].reloadSent = TRUE]
\* The catch of the file write: status, yamlSaving = false, return.
WriteFailed(e, s, error) ==
  [e EXCEPT !.yamlStatus = [type |-> "error",
                            message |-> parseRequestErrorMessage(error, "yamlEditorSaveFailed")],
            !.yamlSaving = FALSE,
            !.save[s] = Returned(e.save[s])]

\* saveMihomoConfigAndReload() up to its first $fetch, or its return when
\* nothing has changed.  It may be called at any time.
saveMihomoConfigAndReload(s) ==
  /\ ~Pending(editor.save[s])
  /\ editor' =
       IF ~isYamlDirty(editor)
       THEN [editor EXCEPT !.save[s] = [IdleSave EXCEPT !.pc = "done"]]
       ELSE [NotAlone(editor) EXCEPT
               !.yamlSaving = TRUE, !.yamlStatus = NoStatus,
               !.save[s] = [IdleSave EXCEPT
                              !.pc = "put", !.putSent = TRUE, !.wasDirty = TRUE,
                              !.sent = editor.yamlContent,
                              !.alone = ~AnyPending(editor),
                              !.originalBefore = editor.originalYamlContent,
                              !.mtimeBefore = editor.yamlMtimeMs]]
  /\ UNCHANGED server

\* PUT /api/mihomo-config is answered: the rest of the first try block, then
\* request.put('configs', ...) is sent.
SaveWritten(s, saveResult) ==
  /\ editor.save[s].pc = "put"
  /\ editor' = [editor EXCEPT
                  !.originalYamlContent = editor.yamlContent,
                  !.yamlMtimeMs = Ms(saveResult.mtimeMs),
                  !.save[s].pc = "reload", !.save[s].written = TRUE,
                  !.save[s].reloadSent = TRUE]
  /\ UNCHANGED server

\* PUT /api/mihomo-config fails.
SaveWriteFailed(s, error) ==
  /\ editor.save[s].pc = "put"
  /\ editor' = WriteFailed(editor, s, error)
  /\ UNCHANGED server

\* The reload is answered: the second try block, then finally.
ReloadFulfilled(s) ==
  /\ editor.save[s].pc = "reload"
  /\ editor' = [editor EXCEPT
                  !.yamlStatus = [type |-> "success", message |-> "yamlEditorSaveAndReloadSuccess"],
                  !.yamlSaving = FALSE,
                  !.save[s] = Returned([editor.save[s] EXCEPT !.reload = "done"])]
  /\ UNCHANGED server

\* The reload fails: the second catch block, then finally.
ReloadRejected(s, error) ==
  /\ editor.save[s].pc = "reload"
  /\ editor' = [editor EXCEPT
                  !.yamlStatus = [type |-> "warning",
                                  message |-> parseRequestErrorMessage(error, "yamlEditorSavedButReloadFailed")],
                  !.yamlSaving = FALSE,
                  !.save[s] = Returned([editor.save[s] EXCEPT !.reload = "failed"])]
  /\ UNCHANGED server

\* ------------------------------------------------------------ environment
\* The caller of a call that has returned makes another call later.
CallAgain(w) ==
  /\ ~crashed
  /\ wr[w].pc = "returned"
  /\ Len(inodes) < MaxFiles
  /\ wr' = [wr EXCEPT ![w] = IdleWriter]
  /\ UNCHANGED <<dir, inodes, now, rd, crashed, lastRename, fetch, editor>>

\* The server process is killed while a call is in progress.
Crash ==
  /\ ~crashed
  /\ \E w \in Writers : wr[w].pc \notin {"idle", "returned"}
  /\ crashed' = TRUE
  /\ UNCHANGED <<dir, inodes, now, wr, rd, lastRename, fetch, editor>>

Tick ==
  /\ ~crashed
  /\ now < MaxClock
  /\ now' = now + 1
  /\ UNCHANGED <<dir, inodes, wr, rd, crashed, lastRename, fetch, editor>>

\* ------------------------------------------------------------------ inputs
Letters(s) == Str(Runs(s))
\* "n1", "n2": the contents concurrent calls write; "o": what the file held.
ContentA == Letters(<<110, 49>>)
ContentB == Letters(<<110, 50>>)
OldData  == <<<<111, 1>>>>
\* 2 MiB + 1 letters; and 'é' with 2 MiB - 1 letters: 2 MiB characters, 2 MiB + 1 bytes.
OversizeAscii == Str(<<<<97, MAX_MIHOMO_CONFIG_SIZE_BYTES + 1>>>>)
OversizeMultibyte == Str(<<<<233, 1>>, <<97, MAX_MIHOMO_CONFIG_SIZE_BYTES - 1>>>>)

\* What concurrent calls are given.
Args == {ContentA, ContentB}

\* The failures injected into storage operations (ENOENT also arises by itself).
Faults == {"EACCES", "EIO"}

\* The target as it may be before any call: absent, or a file of another
\* owner and mode, or one with the owner and mode the server would give it.
InitialFiles ==
  { [data |-> OldData, mode |-> {"ur", "uw"}, uid |-> "mihomo", mtime |-> 0],
    [data |-> OldData, mode |-> AllRW \ ProcessUmask, uid |-> ProcessUid, mtime |-> 0] }

InitCommon ==
  /\ now = 0
  /\ wr = [w \in Writers |-> IdleWriter]
  /\ rd = IdleReader
  /\ crashed = FALSE
  /\ lastRename = 0
  /\ fetch = IdleFetch
  /\ editor = InitEditor

Init ==
  /\ InitCommon
  /\ \/ /\ dir = [p \in {} |-> 0]
        /\ inodes = <<>>
     \/ \E f \in InitialFiles :
          /\ dir = [p \in {PathOf(MIHOMO_CONFIG_FILE_PATH)} |-> 1]
          /\ inodes = <<f>>

Next ==
  \/ \E w \in Writers, v \in Args : Call(w, v, MIHOMO_CONFIG_FILE_PATH)
  \/ \E w \in Writers : WriteFileOpen(w, Faults)
  \/ \E w \in Writers : WriteFileChunk(w, Faults)
  \/ \E w \in Writers : Rename(w, Faults)
  \/ \E w \in Writers : Stat(w, Faults)
  \/ \E w \in Writers : Unlink(w, Faults)
  \/ \E w \in Writers : Return(w)
  \/ Crash
  \/ Tick

Spec == Init /\ [][Next]_vars

\* ---------------------------------------------- one call, then a read
\* Code units: 'a', 'é', a high and a low surrogate, U+FEFF, U+FFFD.
SeqUnits == {97, 233, 55357, 56832, 65279, 65533}

\* Strings of at most two of these units ...
ShortStrings ==
  {<<>>} \cup {Runs(<<u>>) : u \in SeqUnits} \cup {Runs(<<u, v>>) : u, v \in SeqUnits}

\* ... followed by no letters, or by a number of letters near the size limit.
Paddings ==
  {0, MAX_MIHOMO_CONFIG_SIZE_BYTES + 1}
    \cup {MAX_MIHOMO_CONFIG_SIZE_BYTES - k : k \in {0, 1, 2}}

SeqArgs  == {Str(RAppend(s, 97, n)) : s \in ShortStrings, n \in Paddings} \cup NotAString

SeqBodies == {[present |-> FALSE, content |-> [type |-> "undefined", str |-> <<>>]]}
             \cup {[present |-> TRUE, content |-> v] : v \in SeqArgs}

FilePaths == {MIHOMO_CONFIG_FILE_PATH, "/tmp/config.yaml"}

\* What the file may hold before: nothing, text, more text than is written,
\* bytes that are not UTF-8.
SeqInitialFiles ==
  { [data |-> d, mode |-> {"ur", "uw"}, uid |-> "mihomo", mtime |-> 0] :
      d \in {<<>>, OldData, <<<<111, 5>>>>, <<<<255, 1>>>>} }

InitSeq ==
  /\ InitCommon
  /\ \/ /\ dir = [p \in {} |-> 0]
        /\ inodes = <<>>
     \/ \E f \in SeqInitialFiles :
          /\ dir = [p \in {PathOf(fp) : fp \in FilePaths} |->
                      IF p = PathOf(MIHOMO_CONFIG_FILE_PATH) THEN 1 ELSE 2]
          /\ inodes = <<f, f>>

NextSeq ==
  \/ \E v \in SeqArgs, fp \in FilePaths : Call(1, v, fp)
  \/ \E b \in SeqBodies : PutRequest(1, b)
  \/ WriteFileOpen(1, {})
  \/ WriteFileChunk(1, {})
  \/ Rename(1, {})
  \/ Stat(1, {})
  \/ Unlink(1, {})
  \/ Return(1)
  \/ wr[1].pc = "returned" /\ \E fp \in FilePaths : ReadCall(fp)
  \/ ReadFile({})
  \/ ReadStat({})
  \/ Tick

SpecSeq == InitSeq /\ [][NextSeq]_vars

\* ---------------------------------------- calls one after another
\* Two callers, the first calling again and again, nothing failing.
NextMtime ==
  \/ \E w \in Writers : Call(w, ContentA, MIHOMO_CONFIG_FILE_PATH)
  \/ \E w \in Writers : WriteFileOpen(w, {})
  \/ \E w \in Writers : WriteFileChunk(w, {})
  \/ \E w \in Writers : Rename(w, {})
  \/ \E w \in Writers : Stat(w, {})
  \/ \E w \in Writers : Unlink(w, {})
  \/ \E w \in Writers : Return(w)
  \/ CallAgain(1)
  \/ Tick

SpecMtime == Init /\ [][NextMtime]_vars

\* --------------------------- a write and a read at once, storage failing
\* A call is given a text, an oversize text or a number; a request may also
\* have no body.  Any storage operation may fail, with or without a code.
RWArgs   == Args \cup {OversizeAscii, [type |-> "number", str |-> <<>>]}
RWBodies == {[present |-> FALSE, content |-> [type |-> "undefined", str |-> <<>>]]}
            \cup {[present |-> TRUE, content |-> v] : v \in RWArgs}
RWFaults == Errnos \cup {NoCode}

\* The steps of the write call once it has passed its checks.
WriterStep(w) ==
  \/ WriteFileOpen(w, RWFaults)
  \/ WriteFileChunk(w, RWFaults)
  \/ Rename(w, RWFaults)
  \/ Stat(w, RWFaults)
  \/ Unlink(w, RWFaults)
  \/ Return(w)

NextRW ==
  \/ \E v \in RWArgs : Call(1, v, MIHOMO_CONFIG_FILE_PATH)
  \/ \E b \in RWBodies : PutRequest(1, b)
  \/ PutBodyUnreadable(1)
  \/ WriterStep(1)
  \/ ReadCall(MIHOMO_CONFIG_FILE_PATH)
  \/ GetRequest
  \/ ReadFile(RWFaults)
  \/ ReadStat(RWFaults)
  \/ Tick

SpecRW == Init /\ [][NextRW]_vars

\* ------------------------------------- one write call, storage failing
NextWrite ==
  \/ \E v \in RWArgs : Call(1, v, MIHOMO_CONFIG_FILE_PATH)
  \/ WriterStep(1)
  \/ Tick

\* Every storage operation the write call awaits completes in the end.
FairSpecWrite == Init /\ [][NextWrite]_vars /\ WF_vars(WriterStep(1))

\* ------------------------------------------------- one remote fetch
Chars(s) == [type |-> "string", str |-> s]
\* No url, an empty one, a repeated one, and urls of several schemes.
FetchUrls ==
  { [type |-> "undefined", str |-> <<>>], [type |-> "object", str |-> <<>>], Chars(<<>>),
    Chars(<<"f", "t", "p", ":", "/", "/", "h">>),
    Chars(<<"H", "T", "T", "P", ":", "/", "/", "h">>),
    Chars(<<"h", "t", "t", "p">>),
    Chars(<<"h", "t", "t", "p", ":", "/", "/", "h">>),
    Chars(<<"h", "t", "t", "p", "s", ":", "/", "/", "h">>) }

\* content-length: none, empty, "2", the limit, the limit plus one, and the
\* limit plus one given twice.
Limit    == <<"2", "0", "9", "7", "1", "5", "2">>
LimitUp  == <<"2", "0", "9", "7", "1", "5", "3">>
FetchLengths ==
  {[present |-> FALSE, text |-> <<>>]}
    \cup {[present |-> TRUE, text |-> t] :
            t \in {<<>>, <<"2">>, Limit, LimitUp, LimitUp \o <<",", " ">> \o LimitUp}}

\* Bodies: nothing, "ab", and near the limit: letters alone, or letters after
\* U+FEFF, after a byte that is not UTF-8, or after 'é'.
FetchBodies ==
  {<<>>, Runs(<<97, 98>>)}
    \cup {<<<<97, MAX_MIHOMO_CONFIG_SIZE_BYTES + k>>>> : k \in {0, 1}}
    \cup {Runs(<<239, 187, 191>>) \o <<<<97, MAX_MIHOMO_CONFIG_SIZE_BYTES - 2>>>>,
          Runs(<<255>>) \o <<<<97, MAX_MIHOMO_CONFIG_SIZE_BYTES - 2>>>>,
          Runs(<<195, 169>>) \o <<<<97, MAX_MIHOMO_CONFIG_SIZE_BYTES - 1>>>>,
          Runs(<<195, 169>>) \o <<<<97, MAX_MIHOMO_CONFIG_SIZE_BYTES - 2>>>>}

FetchResponses ==
  {[status |-> st, contentLength |-> cl, body |-> b] :
     st \in {200, 404, 503}, cl \in FetchLengths, b \in FetchBodies}

NextFetch ==
  \/ \E url \in FetchUrls : FetchRequest(url)
  \/ FetchRejected
  \/ \E response \in FetchResponses : FetchResponded(response)
  \/ \E broken \in BOOLEAN : FetchTextSettled(broken)

SpecFetch == Init /\ [][NextFetch]_vars

\* -------------------------------------------------------- the editor
EditorTexts == {"", "a", "b"}
\* What GET and PUT /api/mihomo-config answer, and the errors of a request.
LoadResults == {[content |-> "a", mtimeMs |-> 1], [content |-> "b", mtimeMs |-> 2]}
SaveResults == {[ok |-> TRUE, mtimeMs |-> 3]}
RequestErrors ==
  { [data |-> "d", statusMessage |-> "s", message |-> "m"],
    [data |-> "", statusMessage |-> "s", message |-> "m"],
    [data |-> "", statusMessage |-> "", message |-> "m"],
    [data |-> "", statusMessage |-> "", message |-> ""] }

NextEditor ==
  \/ \E text \in EditorTexts : Edit(text)
  \/ \E l \in LoadCalls : loadMihomoConfigFile(l)
  \/ \E l \in LoadCalls, result \in LoadResults : LoadFulfilled(l, result)
  \/ \E l \in LoadCalls, error \in RequestErrors : LoadRejected(l, error)
  \/ \E s \in SaveCalls : saveMihomoConfigAndReload(s)
  \/ \E s \in SaveCalls, saveResult \in SaveResults : SaveWritten(s, saveResult)
  \/ \E s \in SaveCalls, error \in RequestErrors : SaveWriteFailed(s, error)
  \/ \E s \in SaveCalls : ReloadFulfilled(s)
  \/ \E s \in SaveCalls, error \in RequestErrors : ReloadRejected(s, error)

\* The page as it is mounted; the server is left aside.
InitPage ==
  /\ InitCommon
  /\ dir = [p \in {} |-> 0]
  /\ inodes = <<>>

SpecEditor == InitPage /\ [][NextEditor]_vars

\* ====================================================================== claims
Target == PathOf(MIHOMO_CONFIG_FILE_PATH)
NewData(w) == Utf8Encode(wr[w].arg.str)
SameContent(f, g) == f.exists = g.exists /\ f.data = g.data
\* e is a MihomoConfigError with this code and statusCode.
IsError(e, code, statusCode) ==
  e.name = "MihomoConfigError" /\ e.code = code /\ e.statusCode = statusCode

\* C1: crash atomicity.  When the process is killed at any step of a write
\* call that no other call overlaps, the target afterwards holds exactly what
\* it held before the call or exactly the call's new content; it is not
\* truncated, mixed, or absent when it existed before.
C1_CrashAtomic ==
  \A w \in Writers :
    (crashed /\ InProgress(wr[w]) /\ ~wr[w].overlapped)
      => LET f == FileAt(PathOf(wr[w].filePath))
         IN  \/ SameContent(f, wr[w].pre)
             \/ f.exists /\ f.data = NewData(w)

\* Killed between the temp write and the rename: the old content is intact.
C1_Witness ==
  \E w \in Writers :
    /\ crashed /\ wr[w].pc = "rename" /\ ~wr[w].overlapped
    /\ wr[w].pre.exists
    /\ FileAt(wr[w].tempPath).data = NewData(w)
    /\ FileAt(Target).data = wr[w].pre.data
    /\ NewData(w) # wr[w].pre.data

\* C2: no reader ever observes a partially written target: at every instant
\* the target holds the initial content or the complete content of one of
\* the write calls made so far.
C2_NoPartialObservation ==
  LET f == FileAt(Target)
  IN  f.exists =>
        f.data \in {i.data : i \in InitialFiles}
                     \cup {NewData(w) : w \in {v \in Writers : wr[v].pc # "idle"}}

\* C5: a write call that ends in an error caused by a storage failure, with
\* no other writer active, leaves the target's content as it was before the
\* call.
C5_FailureLeavesTarget ==
  \A w \in Writers :
    (wr[w].pc = "return" /\ wr[w].error # NoError /\ wr[w].storage /\ ~wr[w].overlapped)
      => SameContent(FileAt(PathOf(wr[w].filePath)), wr[w].pre)

\* C6: two write calls to the same path that overlap in time have different
\* temporary paths.
C6_UniqueTempPaths ==
  \A w, v \in Writers :
    (w # v /\ InProgress(wr[w]) /\ InProgress(wr[v]) /\ wr[w].filePath = wr[v].filePath)
      => wr[w].tempPath # wr[v].tempPath

\* C7: last writer wins.  Once two concurrent calls have both returned, the
\* target holds the content of the call whose rename was executed last, and
\* each call that returned success installed its own content by its rename.
C7_LastWriterWins ==
  (\A w \in Writers : wr[w].pc = "returned" /\ wr[w].overlapped)
    => /\ lastRename # 0 => FileAt(Target).data = NewData(lastRename)
       /\ \A w \in Writers :
            wr[w].error = NoError => wr[w].renamed /\ wr[w].installed = NewData(w)

\* C8: when a write call returns, with success or with an error, and its
\* cleanup unlink did not fail, the temporary file the call created is not
\* on disk under its temporary path.
C8_TempFileRemoved ==
  \A w \in Writers :
    (wr[w].pc \in {"return", "returned"} /\ wr[w].created # 0 /\ wr[w].cleanup # "failed")
      => ~(Exists(wr[w].tempPath) /\ dir[wr[w].tempPath] = wr[w].created)

\* A call failed after creating its temporary file, and the cleanup removed it.
C8_Witness ==
  \E w \in Writers :
    /\ wr[w].pc = "returned" /\ wr[w].created # 0
    /\ wr[w].error # NoError /\ wr[w].cleanup = "removed"
    /\ ~Exists(wr[w].tempPath)

\* C9: a successful write changes only the content and the modification
\* time of the file at the target path: its permissions and owner after the
\* call are those it had before the call.
C9_MetadataKept ==
  \A w \in Writers :
    (wr[w].pc = "return" /\ wr[w].error = NoError /\ ~wr[w].overlapped /\ wr[w].pre.exists)
      => LET f == FileAt(PathOf(wr[w].filePath))
         IN  f.exists /\ f.mode = wr[w].pre.mode /\ f.uid = wr[w].pre.uid

\* A string with no unpaired surrogate.
RECURSIVE WellFormed(_)
WellFormed(s) ==
  IF Len(s) = 0 THEN TRUE
  ELSE IF IsHighSurrogate(RHead(s))
       THEN /\ Len(RTail(s)) > 0
            /\ IsLowSurrogate(RHead(RTail(s)))
            /\ WellFormed(RTail(RTail(s)))
       ELSE IF IsLowSurrogate(RHead(s)) THEN FALSE ELSE WellFormed(Tail(s))

WithinLimit(v) ==
  v.type = "string" /\ ByteLength(v.str) <= MAX_MIHOMO_CONFIG_SIZE_BYTES

\* The write call succeeded, and a read of the same path made after it
\* returned the written content.
RoundTrips(w) ==
  /\ wr[w].pc = "returned" => wr[w].error = NoError
  /\ (wr[w].pc = "returned" /\ rd.pc = "returned" /\ rd.filePath = wr[w].filePath)
       => rd.error = NoError /\ rd.content = wr[w].arg.str

\* C3 as stated: round trip.  For every string content within the size limit
\* and every path, when no storage operation fails and no other writer
\* intervenes, the write succeeds and a following read returns exactly content.
C3_RoundTripAnyString ==
  \A w \in Writers : (wr[w].called /\ WithinLimit(wr[w].arg)) => RoundTrips(w)

\* C3, amended: the same for every content that has no unpaired surrogate.
C3_RoundTrip ==
  \A w \in Writers :
    (wr[w].called /\ WithinLimit(wr[w].arg) /\ WellFormed(wr[w].arg.str)) => RoundTrips(w)

\* 'é' and U+FEFF written over a longer file and read back.
C3_Witness ==
  /\ wr[1].pc = "returned" /\ wr[1].error = NoError
  /\ wr[1].arg.str = Runs(<<65279, 233>>)
  /\ wr[1].pre.data = <<<<111, 5>>>>
  /\ rd.pc = "returned" /\ rd.filePath = wr[1].filePath
  /\ rd.content = wr[1].arg.str

\* C4: a call whose content is longer than MAX_MIHOMO_CONFIG_SIZE_BYTES in
\* UTF-8 fails with CONTENT_TOO_LARGE / 413 before any storage operation:
\* the file system is unchanged by the call and no temporary file is made.
C4_TooLargeRejected ==
  [][\A w \in Writers :
       (/\ wr[w].pc = "idle" /\ wr'[w].pc # "idle"
        /\ wr'[w].called
        /\ wr'[w].arg.type = "string"
        /\ ByteLength(wr'[w].arg.str) > MAX_MIHOMO_CONFIG_SIZE_BYTES)
       => /\ wr'[w].pc = "returned"
          /\ IsError(wr'[w].error, "CONTENT_TOO_LARGE", 413)
          /\ ~wr'[w].storage /\ wr'[w].created = 0
          /\ wr'[w].tempPath = PathOf("")
          /\ dir' = dir /\ inodes' = inodes]_vars

\* 'é' and 2 MiB - 1 letters: 2 MiB characters, rejected over an existing file.
C4_Witness ==
  /\ wr[1].pc = "returned"
  /\ wr[1].arg = OversizeMultibyte
  /\ wr[1].error.code = "CONTENT_TOO_LARGE"
  /\ wr[1].pre.exists /\ FileAt(PathOf(wr[1].filePath)) = wr[1].pre

\* C10: writeMihomoConfigFile given a content that is not a string fails
\* with INVALID_CONTENT / 400 without any storage operation; the PUT handler
\* given no body or a content that is not a string answers INVALID_CONTENT /
\* 400 and does not call writeMihomoConfigFile.
C10_InvalidContentRejected ==
  [][\A w \in Writers :
       (/\ wr[w].pc = "idle" /\ wr'[w].pc # "idle"
        /\ wr'[w].arg.type # "string")
       => /\ wr'[w].pc = "returned"
          /\ IsError(wr'[w].error, "INVALID_CONTENT", 400)
          /\ ~wr'[w].storage /\ wr'[w].created = 0
          /\ wr'[w].via = "put" => ~wr'[w].called /\ wr'[w].status = 400
          /\ dir' = dir /\ inodes' = inodes]_vars

\* A PUT whose content is a number was answered 400 without a call.
C10_Witness ==
  /\ wr[1].pc = "returned" /\ wr[1].via = "put"
  /\ wr[1].arg.type = "number"
  /\ ~wr[1].called /\ wr[1].status = 400
  /\ wr[1].error.code = "INVALID_CONTENT"

\* The (code, statusCode) pair the taxonomy gives to a storage failure.
Classified(errno) ==
  IF errno = "ENOENT" THEN <<"NOT_FOUND", 404>>
  ELSE IF errno \in {"EACCES", "EPERM"} THEN <<"PERMISSION_DENIED", 403>>
  ELSE <<"IO_ERROR", 500>>
Kind(e) == <<e.code, e.statusCode>>
ReadReturned == rd.pc = "returned"

\* C11: a read of a path where no file exists fails, with NOT_FOUND/404 when
\* the failure is the missing file; a failed read fails with NOT_FOUND/404 for
\* an absent path, PERMISSION_DENIED/403 for denied access and IO_ERROR/500 for
\* any other failure; and no step of a read changes the file system.
C11_ReadErrors ==
  /\ [](ReadReturned /\ rd.error # NoError =>
          /\ rd.errno = "ENOENT" => IsError(rd.error, "NOT_FOUND", 404)
          /\ rd.errno \in {"EACCES", "EPERM"} => IsError(rd.error, "PERMISSION_DENIED", 403)
          /\ rd.errno \notin {"ENOENT", "EACCES", "EPERM"} => IsError(rd.error, "IO_ERROR", 500))
  /\ [][rd' # rd => dir' = dir /\ inodes' = inodes]_vars
  /\ [][(rd.pc = "reading" /\ rd'.pc = "returned" /\ ~Exists(PathOf(rd.filePath)))
          => /\ rd'.error # NoError
             /\ rd'.errno = "ENOENT" => IsError(rd'.error, "NOT_FOUND", 404)]_vars

C11_Witness ==
  /\ ReadReturned /\ rd.via = "direct"
  /\ ~Exists(PathOf(rd.filePath))
  /\ IsError(rd.error, "NOT_FOUND", 404)

FivePairs ==
  { <<"NOT_FOUND", 404>>, <<"PERMISSION_DENIED", 403>>, <<"INVALID_CONTENT", 400>>,
    <<"CONTENT_TOO_LARGE", 413>>, <<"IO_ERROR", 500>> }

\* C12: mapNodeError gives every failure code, and a failure without one, the
\* pair of the taxonomy, the same for 'read' and 'write'; the errors of failed
\* reads and writes are classified so, and every error a read or write call
\* raises is a MihomoConfigError with one of the five pairs.
C12_Classifier ==
  /\ \A e \in Errnos \cup {NoCode, "EEXIST"}, a \in {"read", "write"} :
        /\ mapNodeError(e, a).name = "MihomoConfigError"
        /\ Kind(mapNodeError(e, a)) = Classified(e)
  /\ ReadReturned /\ rd.error # NoError =>
        /\ rd.error.name = "MihomoConfigError"
        /\ Kind(rd.error) = Classified(rd.errno)
        /\ Kind(rd.error) \in FivePairs
  /\ \A w \in Writers : wr[w].called /\ wr[w].error # NoError =>
        /\ wr[w].error.name = "MihomoConfigError"
        /\ wr[w].storage => Kind(wr[w].error) = Classified(wr[w].errno)
        /\ Kind(wr[w].error) \in FivePairs

\* A read and a write that both met EPERM.
C12_Witness ==
  /\ ReadReturned /\ rd.errno = "EPERM"
  /\ wr[1].pc = "returned" /\ wr[1].errno = "EPERM"
  /\ Kind(rd.error) = Kind(wr[1].error)

Succeeded(w) == wr[w].pc = "returned" /\ wr[w].called /\ wr[w].error = NoError

\* C13: the mtimeMs returned by a successful write that no other write call
\* overlaps is not before the target's mtimeMs just before the call.
C13_MtimeNotBefore ==
  \A w \in Writers : Succeeded(w) /\ wr[w].pre.exists /\ ~wr[w].overlapped
                        => wr[w].mtimeMs >= wr[w].pre.mtime

\* A call alone replaced a file written earlier by a file written later.
C13_Witness ==
  \E w \in Writers :
    /\ Succeeded(w) /\ ~wr[w].overlapped
    /\ wr[w].pre.exists /\ wr[w].pre.mtime = 0
    /\ wr[w].mtimeMs = 1
    /\ dir[Target] = wr[w].created /\ wr[w].created # 1

\* C14: the PUT and GET handlers answer a MihomoConfigError with its statusCode
\* and a payload holding its code, any other error with 500; on success PUT
\* answers ok = true with the mtimeMs of writeMihomoConfigFile, and GET the
\* content and mtimeMs of readMihomoConfigFile.
C14_Handlers ==
  /\ \A w \in Writers : (wr[w].via = "put" /\ wr[w].pc = "returned") =>
        LET r == wr[w] IN
        /\ r.error = NoError =>
              r.status = 200 /\ r.payload.ok /\ r.payload.mtimeMs = r.mtimeMs
        /\ (r.error # NoError /\ r.error.name = "MihomoConfigError") =>
              /\ r.status = r.error.statusCode /\ r.payload.code = r.error.code
              /\ ~r.payload.ok
              /\ r.storage => <<r.payload.code, r.status>> = Classified(r.errno)
        /\ (r.error # NoError /\ r.error.name # "MihomoConfigError") =>
              r.status = 500 /\ ~r.payload.ok
  /\ (rd.via = "get" /\ ReadReturned) =>
        /\ rd.error = NoError =>
              /\ rd.status = 200
              /\ rd.payload.content = rd.content /\ rd.payload.mtimeMs = rd.mtimeMs
        /\ rd.error # NoError =>
              /\ rd.status = rd.error.statusCode /\ rd.payload.code = rd.error.code
              /\ <<rd.payload.code, rd.status>> = Classified(rd.errno)

\* A PUT whose body could not be read, and a GET that returned the file.
C14_Witness ==
  /\ wr[1].via = "put" /\ wr[1].pc = "returned"
  /\ wr[1].error = OtherError /\ wr[1].status = 500
  /\ rd.via = "get" /\ ReadReturned /\ rd.error = NoError
  /\ rd.status = 200 /\ rd.payload.content = Runs(<<111>>)

\* C15: a call given a string is refused with CONTENT_TOO_LARGE/413 exactly
\* when the string's UTF-8 byte length is above MAX_MIHOMO_CONFIG_SIZE_BYTES:
\* content of exactly that many bytes is written, one byte more is refused,
\* and so is content of no more characters than the limit but more bytes.
C15_ByteCeiling ==
  \A w \in Writers :
    (wr[w].called /\ wr[w].pc = "returned" /\ wr[w].arg.type = "string") =>
      LET bytes == RLen(Utf8Encode(wr[w].arg.str))
          chars == RLen(wr[w].arg.str)
      IN  /\ bytes > MAX_MIHOMO_CONFIG_SIZE_BYTES
                <=> IsError(wr[w].error, "CONTENT_TOO_LARGE", 413)
          /\ bytes <= MAX_MIHOMO_CONFIG_SIZE_BYTES =>
                /\ wr[w].error = NoError
                /\ FileAt(PathOf(wr[w].filePath)).data = NewData(w)
          /\ (chars <= MAX_MIHOMO_CONFIG_SIZE_BYTES /\ bytes > MAX_MIHOMO_CONFIG_SIZE_BYTES)
                => wr[w].error.code = "CONTENT_TOO_LARGE"

\* Content of exactly the limit in bytes, of fewer characters, was written.
C15_Witness ==
  \E w \in Writers :
    /\ wr[w].called /\ wr[w].pc = "returned" /\ wr[w].error = NoError
    /\ RLen(Utf8Encode(wr[w].arg.str)) = MAX_MIHOMO_CONFIG_SIZE_BYTES
    /\ RLen(wr[w].arg.str) < MAX_MIHOMO_CONFIG_SIZE_BYTES
    /\ RLen(FileAt(PathOf(wr[w].filePath)).data) = MAX_MIHOMO_CONFIG_SIZE_BYTES

\* C16: what a write call returns or throws is settled before the cleanup:
\* neither the unlink, whether it removes the file, finds none or fails, nor
\* the return after it changes the error or the mtimeMs of the call.
C16_CleanupSwallowed ==
  [][\A w \in Writers :
       (wr[w].pc \in {"unlink", "return"} /\ wr'[w].pc # wr[w].pc) =>
         /\ wr'[w].pc = IF wr[w].pc = "unlink" THEN "return" ELSE "returned"
         /\ wr'[w].error = wr[w].error
         /\ wr'[w].mtimeMs = wr[w].mtimeMs]_vars

\* A call that had failed with ENOSPC and whose unlink failed too.
C16_Witness ==
  \E w \in Writers :
    /\ wr[w].pc = "returned" /\ wr[w].cleanup = "failed"
    /\ wr[w].error.code = "IO_ERROR" /\ wr[w].errno = "ENOSPC"
    /\ Exists(wr[w].tempPath)

\* C17: when every storage operation it awaits completes, a write call that
\* was invoked returns in the end, with a value or with a MihomoConfigError;
\* and a call that passed the two checks has run its cleanup once when it
\* returns, the cleanup being run from the finally block only and never twice.
C17_Terminates ==
  /\ wr[1].called ~> /\ wr[1].pc = "returned"
                     /\ wr[1].error = NoError \/ wr[1].error.name = "MihomoConfigError"
  /\ [](wr[1].pc = "returned" /\ wr[1].tempPath.tmp => wr[1].cleanup # "none")
  /\ [](wr[1].pc = "returned" /\ wr[1].called /\ ~wr[1].tempPath.tmp
          => wr[1].error.code \in {"INVALID_CONTENT", "CONTENT_TOO_LARGE"})
  /\ [][wr'[1].cleanup # wr[1].cleanup
          => wr[1].cleanup = "none" /\ wr[1].pc = "unlink" /\ wr'[1].pc = "return"]_vars

\* A call that failed at its rename has returned, its temporary file removed.
C17_Witness ==
  /\ wr[1].pc = "returned" /\ wr[1].called
  /\ wr[1].errno = "EIO" /\ ~wr[1].renamed /\ RLen(wr[1].installed) = 0
  /\ wr[1].off = RLen(NewData(1)) /\ wr[1].off > 0
  /\ wr[1].cleanup = "removed"

\* C18: with no storage failure, a write call given a string within the limit
\* succeeds whether or not the path held a file, and once it has succeeded the
\* path exists and holds the new content and nothing else, in the file the call
\* created.
C18_CreateOrReplace ==
  \A w \in Writers :
    (wr[w].called /\ wr[w].pc \in {"return", "returned"} /\ WithinLimit(wr[w].arg)) =>
      LET p == PathOf(wr[w].filePath) IN
      /\ wr[w].error = NoError
      /\ Exists(p)
      /\ dir[p] = wr[w].created
      /\ inodes[dir[p]].data = Utf8Encode(wr[w].arg.str)

\* A path that held no file now holds the text written to it.
C18_Witness ==
  \E w \in Writers :
    /\ wr[w].pc = "returned" /\ wr[w].error = NoError
    /\ ~wr[w].pre.exists
    /\ FileAt(PathOf(wr[w].filePath)).data = <<<<97, 1>>, <<195, 1>>, <<169, 1>>>>

FetchEnded   == fetch.pc = "done"
ResponseOk   == fetch.response.status >= 200 /\ fetch.response.status <= 299
\* The response declared a content-length above the limit.
DeclaredOver ==
  /\ fetch.response.contentLength.present
  /\ fetch.response.contentLength.text # <<>>
  /\ ~Number(fetch.response.contentLength.text).nan
  /\ Number(fetch.response.contentLength.text).value > MAX_MIHOMO_CONFIG_SIZE_BYTES

\* C19: the remote fetch handler returns no content of more than
\* MAX_MIHOMO_CONFIG_SIZE_BYTES bytes of UTF-8; an accepted response that
\* declares a greater content-length is answered 413 with its body unread; a
\* body that decodes to more is answered 413 whatever content-length said; the
\* error made for a refused response keeps its status; and a fetch or a
\* transfer that fails is answered 502.
C19_BoundedFetch ==
  FetchEnded =>
    /\ fetch.error = NoFetchError =>
          /\ fetch.bodyRead
          /\ RLen(Utf8Encode(fetch.content)) <= MAX_MIHOMO_CONFIG_SIZE_BYTES
          /\ fetch.content = ResponseText(fetch.response.body)
    /\ (ResponseOk /\ DeclaredOver) => fetch.error.statusCode = 413 /\ ~fetch.bodyRead
    /\ (fetch.bodyRead /\ RLen(Utf8Encode(ResponseText(fetch.response.body)))
                            > MAX_MIHOMO_CONFIG_SIZE_BYTES)
          => fetch.error = RemoteTooLarge
    /\ (fetch.response # NoResponse /\ ~ResponseOk) =>
          fetch.error = createError(fetch.response.status,
                          <<"Remote server responded with ", ToString(fetch.response.status)>>)
    /\ (fetch.error.statusCode = 400) <=> (fetch.response = NoResponse /\
          (fetch.url.type # "string" \/ Len(fetch.url.str) < 8 \/
           ~(SubSeq(fetch.url.str, 1, 4) = <<"h", "t", "t", "p">>)))
    /\ (fetch.error.statusCode # 400 /\ fetch.response = NoResponse)
          => fetch.error.statusCode = 502
    /\ (ResponseOk /\ ~DeclaredOver /\ ~fetch.bodyRead) => fetch.error.statusCode = 502

\* A response that declared two bytes and sent more than the limit was read
\* and refused.
C19_Witness ==
  /\ FetchEnded /\ fetch.bodyRead
  /\ fetch.response.contentLength.text = <<"2">>
  /\ RLen(fetch.response.body) > MAX_MIHOMO_CONFIG_SIZE_BYTES
  /\ fetch.error.statusCode = 413

\* The versions the target has had with one write call: the file it held at
\* first, if any, and the file the call has renamed onto it, if it has.
TargetVersions ==
  {inodes[i] : i \in {j \in {1} : Len(inodes) >= 1 /\ wr[1].created # 1}
                      \cup {j \in {wr[1].created} : wr[1].renamed}}

\* C20: the content and the mtimeMs that a read returns are those of one
\* version of the file, also when a write call runs at the same time.
C20_ReadSnapshot ==
  (ReadReturned /\ rd.error = NoError) =>
    \E v \in TargetVersions : rd.content = Utf8Decode(v.data) /\ rd.mtimeMs = v.mtime

\* C21: the mtimeMs a write call takes from its stat is the modification time
\* of the file the call wrote and renamed onto the target, whatever other
\* write calls do between its rename and its stat.
C21_OwnMtime ==
  [][\A w \in Writers :
       (wr[w].pc = "stat" /\ wr'[w].pc = "unlink" /\ wr'[w].error = NoError)
         => wr'[w].mtimeMs = inodes[wr[w].fd].mtime]_vars

\* Call s of saveMihomoConfigAndReload takes the step from pc a to pc b.
SaveStep(s, a, b) == editor.save[s].pc = a /\ editor'.save[s].pc = b
\* Call s is made now.
SaveCalled(s) == ~Pending(editor.save[s]) /\ editor'.save[s] # editor.save[s]

\* C22: a call of saveMihomoConfigAndReload asks for the reload only after its
\* PUT /api/mihomo-config has succeeded; called when nothing has changed it
\* sends neither request and changes nothing; when the file write fails it
\* returns with no reload asked for and the status 'error'; when the write
\* succeeds and the reload fails the status becomes 'warning', and 'success'
\* only when the reload succeeds.
C22_ReloadAfterWrite ==
  /\ [](\A s \in SaveCalls :
          /\ editor.save[s].reloadSent => editor.save[s].putSent /\ editor.save[s].written
          /\ editor.save[s].pc = "reload" => editor.save[s].written
          /\ editor.save[s].putSent => editor.save[s].wasDirty)
  /\ [][\A s \in SaveCalls :
          /\ (SaveCalled(s) /\ ~isYamlDirty(editor)) =>
                /\ editor'.save[s].pc = "done"
                /\ ~editor'.save[s].putSent /\ ~editor'.save[s].reloadSent
                /\ editor'.yamlStatus = editor.yamlStatus
                /\ editor'.yamlSaving = editor.yamlSaving
          /\ (SaveCalled(s) /\ isYamlDirty(editor)) =>
                editor'.save[s].putSent /\ ~editor'.save[s].reloadSent
          /\ SaveStep(s, "put", "done") =>
                /\ ~editor'.save[s].reloadSent /\ ~editor'.save[s].written
                /\ editor'.yamlStatus.type = "error"
          /\ ~SaveStep(s, "put", "reload") =>
                editor'.save[s].reloadSent = editor.save[s].reloadSent \/ SaveCalled(s)
          /\ (SaveStep(s, "reload", "done") /\ editor'.save[s].reload = "failed") =>
                editor'.yamlStatus.type = "warning"
          /\ (SaveStep(s, "reload", "done") /\ editor'.save[s].reload = "done") =>
                editor'.yamlStatus.type = "success"]_vars

\* A save whose file write succeeded and whose reload failed.
C22_Witness ==
  \E s \in SaveCalls :
    /\ editor.save[s].pc = "done" /\ editor.save[s].written
    /\ editor.save[s].reload = "failed"
    /\ editor.yamlStatus.type = "warning"

LoadStep(l, a, b) == editor.load[l].pc = a /\ editor'.load[l].pc = b

\* C23: when a call of saveMihomoConfigAndReload or loadMihomoConfigFile
\* completes, on any path, yamlSaving or yamlLoading is false again, and both
\* are whenever no call is in progress.  When the file write of a save
\* succeeds isYamlDirty becomes false, and for a save that no other call
\* overlaps originalYamlContent is the content that was sent and stays so,
\* with isYamlDirty false, when the save returns, whether the reload succeeded
\* or failed.  When the file write fails originalYamlContent and yamlMtimeMs
\* are left as they are, and after a save that no other call overlaps they
\* are what they were before it and the editor is dirty.
C23_EditorFlags ==
  /\ [](~AnyPending(editor) => ~editor.yamlSaving /\ ~editor.yamlLoading)
  /\ [](\A s \in SaveCalls : (Pending(editor.save[s]) /\ editor.save[s].alone) =>
          /\ editor.yamlSaving
          /\ editor.yamlContent = editor.save[s].sent
          /\ editor.save[s].written => editor.originalYamlContent = editor.save[s].sent)
  /\ [][\A s \in SaveCalls :
          /\ (SaveStep(s, "put", "done") \/ SaveStep(s, "reload", "done"))
                => ~editor'.yamlSaving
          /\ SaveStep(s, "put", "reload") =>
                /\ ~isYamlDirty(editor')
                /\ editor'.yamlMtimeMs # Null
                /\ editor.save[s].alone => editor'.originalYamlContent = editor.save[s].sent
          /\ (SaveStep(s, "reload", "done") /\ editor.save[s].alone) =>
                /\ ~isYamlDirty(editor')
                /\ editor'.originalYamlContent = editor.save[s].sent
          /\ SaveStep(s, "put", "done") =>
                /\ editor'.originalYamlContent = editor.originalYamlContent
                /\ editor'.yamlMtimeMs = editor.yamlMtimeMs
                /\ editor.save[s].alone =>
                      /\ editor'.originalYamlContent = editor.save[s].originalBefore
                      /\ editor'.yamlMtimeMs = editor.save[s].mtimeBefore
                      /\ isYamlDirty(editor')]_vars
  /\ [][\A l \in LoadCalls :
          LoadStep(l, "get", "done") => ~editor'.yamlLoading]_vars

\* A save alone whose file write failed: the editor is dirty as before, with
\* the status 'error', and nothing is in progress.
C23_Witness ==
  \E s \in SaveCalls :
    /\ editor.save[s].pc = "done" /\ editor.save[s].alone
    /\ editor.save[s].putSent /\ ~editor.save[s].written
    /\ ~AnyPending(editor) /\ ~editor.yamlSaving
    /\ editor.yamlStatus.type = "error"
    /\ editor.yamlContent = "b" /\ editor.originalYamlContent = "a"
    /\ editor.yamlMtimeMs = Ms(1)

====
